---- MODULE Spec2Model ----
(***************************************************************************)
(* A model of the eye tracker of src/eye_tracker.py: the gesture state     *)
(* machine (detect_gesture), the two measurements (calculate_ear,          *)
(* calculate_gaze), the per-frame pipeline (process_frame) with its        *)
(* bounded gaze history, get_gaze_history and reset_metrics.               *)
(*                                                                         *)
(* Units.  The source computes with floats; the model computes with        *)
(* integers in fixed units, and every input the model enumerates is exact  *)
(* in them:                                                                *)
(*   - timestamps and durations are in tenths of a second (0.2 s = 2);     *)
(*   - eye aspect ratios and ear_threshold are in hundredths (0.25 = 25);  *)
(*   - gaze coordinates are in thousandths (0.5 = 500);                    *)
(*   - landmark coordinates are integer pixels, as in the source.          *)
(* The arithmetic of the model is exact: the rounding of the source's      *)
(* float subtraction at the edges of a time window is not modelled.        *)
(***************************************************************************)
EXTENDS Integers, Sequences, FiniteSets, TLC

VARIABLES
    \* configuration of EyeTracker (src/eye_tracker.py:63-64, 72, 75-76)
    ear_threshold, wink_duration, gaze_history_max, frame_width, frame_height,
    \* gesture detection state (src/eye_tracker.py:66-71)
    left_eye_closed_time, right_eye_closed_time, last_blink_time, blink_count,
    gaze_history,
    \* the caller's clock: the timestamp of the latest call
    clock,
    \* the latest call: its name, its arguments, and what it returned
    lastop, args, gesture, eye_data,
    \* history variables (observers; no action's guard or result reads them)
    run, dbl, pushed, cleared, closed_since,
    \* what the caller holds: the list the latest get_gaze_history call
    \* returned, and the latest direct call of calculate_ear or calculate_gaze
    held, measure,
    \* the application object, EyeTrackingGUI (src/gui_tk.py:26-40) or
    \* StreamState (src/web_app.py:19-31): its running flag, the GUI's capture
    \* thread, and the components of a capture session
    running, capture_thread, input_handler, eye_tracker, data_logger,
    \* where the GUI's two threads are: the Tk main loop and the capture thread
    ui, capture,
    \* history variable: why the loop of the latest start was left
    ended,
    \* the web streamer (src/web_app.py:22): the thread object it holds, the
    \* capture threads it ever started, and a stop() request in progress
    thread, workers, stopper,
    \* history variable: the capture thread that read a component which
    \* _cleanup had set to None
    used_none,
    \* history variables of a DataLogger: every record logged, and the
    \* latest call with the number of rows it wrote to the file
    logged, logcall

config == <<ear_threshold, wink_duration, gaze_history_max, frame_width, frame_height>>
metrics == <<left_eye_closed_time, right_eye_closed_time, last_blink_time,
             blink_count, gaze_history>>
call == <<lastop, args, gesture, eye_data>>
history == <<run, dbl, pushed, cleared, closed_since>>
caller == <<held, measure>>
gui == <<running, capture_thread, input_handler, eye_tracker, data_logger,
         ui, capture, ended>>
web == <<thread, workers, stopper, used_none>>
logs == <<logged, logcall>>
vars == <<config, metrics, clock, call, history, caller, gui, web, logs>>

----------------------------------------------------------------------------
(* Bounds of the model. *)

\* the latest timestamp a caller hands out, in tenths of a second
MaxTime == 8
\* the longest gap between two consecutive calls, in tenths of a second
MaxStep == 3
\* the latest timestamp of a frame of a short session, in tenths of a second
MaxFrameTime == 5
\* the frames with a face a caller passes between two resets
MaxFrames == 2
\* the frames with a face of a long session between two resets
MaxSweep == 36
\* the changes a caller makes to one list that get_gaze_history returned
MaxEdits == 1
\* the frames with a face between two resets of a session of measurements
MaxMeasured == 1
\* the capture threads a web streamer starts in its lifetime
MaxThreads == 2

----------------------------------------------------------------------------
(* Program constants. *)

\* class GestureType
GestureType == {"none", "left_wink", "right_wink", "double_blink", "sustained_gaze"}

\* the value a Python function returns when it falls off its end or returns None
None == "None"
\* None where the other values are records
NoneRecord == [kind |-> "None"]

\* ear_threshold: float = 0.25
DefaultEarThreshold == 25
\* wink_duration = (0.2, 0.5)
DefaultWinkMin == 2
DefaultWinkMax == 5
\* `current_time - self.last_blink_time < 0.5`
DoubleBlinkWindow == 5
\* self.gaze_history_max = 30
GazeHistoryMax == 30

\* the ratios a caller passes to detect_gesture: 0.1, 0.3, 0.4
EarValues == {10, 30, 40}
\* the thresholds a session runs with (the GUI's scale spans 0.1 .. 0.4)
EarThresholds == {25, 40}

----------------------------------------------------------------------------
(* EyeTracker.__init__ *)

InitTracker ==
    /\ ear_threshold = DefaultEarThreshold
    /\ wink_duration = <<DefaultWinkMin, DefaultWinkMax>>
    /\ left_eye_closed_time = 0
    /\ right_eye_closed_time = 0
    /\ last_blink_time = 0
    /\ blink_count = 0
    /\ gaze_history = <<>>
    /\ gaze_history_max = GazeHistoryMax
    /\ frame_width = 0
    /\ frame_height = 0

NoRun == [eye |-> "none"]
NoDbl == [n |-> 0]
NoArgs == [op |-> "none"]
NoSince == [left |-> <<>>, right |-> <<>>, left_mode |-> "open", right_mode |-> "open"]

InitObservers ==
    /\ clock = 0
    /\ lastop = "init"
    /\ args = NoArgs
    /\ gesture = "nocall"
    /\ eye_data = [kind |-> "nocall"]
    /\ run = NoRun
    /\ dbl = NoDbl
    /\ pushed = <<>>
    /\ cleared = NoneRecord
    /\ closed_since = NoSince
    /\ held = NoneRecord
    /\ measure = NoneRecord

\* EyeTrackingGUI.__init__: not running, no thread, no components
InitGui ==
    /\ running = FALSE
    /\ capture_thread = None
    /\ input_handler = None
    /\ eye_tracker = None
    /\ data_logger = NoneRecord
    /\ ui = "idle"
    /\ capture = [at |-> "none", frame_count |-> 0, caught |-> FALSE]
    /\ ended = "none"

\* StreamState.__init__: no thread object, no capture thread started, no
\* stop() in progress
NoWorker == [at |-> "unborn", frame_idx |-> 0, ear_threshold |-> DefaultEarThreshold]
NoStopper == [at |-> "idle", joins |-> <<>>]

InitWeb ==
    /\ thread = <<>>
    /\ workers = [t \in 1..MaxThreads |-> NoWorker]
    /\ stopper = NoStopper
    /\ used_none = {}

\* no DataLogger call made yet
NoLogCall == [op |-> "none", wrote |-> 0, again |-> FALSE]

InitLogs ==
    /\ logged = <<>>
    /\ logcall = NoLogCall

Init == InitTracker /\ InitObservers /\ InitGui /\ InitWeb /\ InitLogs

----------------------------------------------------------------------------
(* EyeTracker.detect_gesture *)

\* left_closed = left_ear < self.ear_threshold
EyeClosed(ear) == ear < ear_threshold

\* (mutant) the else branch that clears the timer is missing
ClosedTimeAfter_NoClear(closed, closed_time, current_time) ==
    IF closed /\ closed_time = 0 THEN current_time ELSE closed_time

\* "Update eye closed times": the timer of one eye after the update
ClosedTimeAfter(closed, closed_time, current_time) ==
    IF closed
    THEN IF closed_time = 0 THEN current_time ELSE closed_time
    ELSE 0

\* (mutant) `<` for the second `<=`: the maximum is excluded
InWinkDuration_MaxExcluded(duration) ==
    wink_duration[1] <= duration /\ duration < wink_duration[2]

\* self.wink_duration[0] <= duration <= self.wink_duration[1]
InWinkDuration(duration) ==
    wink_duration[1] <= duration /\ duration <= wink_duration[2]

\* the wink test of one eye, on its updated timer
WinkFires(closed_time, current_time) ==
    /\ closed_time > 0
    /\ InWinkDuration(current_time - closed_time)

\* current_time - self.last_blink_time < 0.5
WithinBlinkWindow(current_time) ==
    current_time - last_blink_time < DoubleBlinkWindow

\* (mutant) `>` for `>=` in the test of the counter
DoubleBlinkFires_StrictCount(current_time) ==
    WithinBlinkWindow(current_time) /\ blink_count + 1 > 2

\* the both-eyes-closed branch fires a double blink
DoubleBlinkFires(current_time) ==
    WithinBlinkWindow(current_time) /\ blink_count + 1 >= 2

\* (mutant) the final return statement is missing
FallThrough_NoReturn == None

\* the value a call that reaches the end of the function returns
FallThrough == "none"

\* (mutant) the wink branches do not test the other eye
GestureOf_OtherEyeUntested(left_closed, right_closed, lt, rt, current_time) ==
    IF left_closed
    THEN IF WinkFires(lt, current_time) THEN "left_wink" ELSE FallThrough
    ELSE IF right_closed
    THEN IF WinkFires(rt, current_time) THEN "right_wink" ELSE FallThrough
    ELSE FallThrough

\* (mutant) a frame with both eyes open reports a sustained gaze
GestureOf_SustainedWhenOpen(left_closed, right_closed, lt, rt, current_time) ==
    IF left_closed /\ ~right_closed
    THEN IF WinkFires(lt, current_time) THEN "left_wink" ELSE FallThrough
    ELSE IF right_closed /\ ~left_closed
    THEN IF WinkFires(rt, current_time) THEN "right_wink" ELSE FallThrough
    ELSE IF left_closed /\ right_closed
    THEN IF DoubleBlinkFires(current_time) THEN "double_blink" ELSE FallThrough
    ELSE "sustained_gaze"

\* the value detect_gesture returns, given the updated timers
GestureOf(left_closed, right_closed, lt, rt, current_time) ==
    IF left_closed /\ ~right_closed
    THEN IF WinkFires(lt, current_time) THEN "left_wink" ELSE FallThrough
    ELSE IF right_closed /\ ~left_closed
    THEN IF WinkFires(rt, current_time) THEN "right_wink" ELSE FallThrough
    ELSE IF left_closed /\ right_closed
    THEN IF DoubleBlinkFires(current_time) THEN "double_blink" ELSE FallThrough
    ELSE FallThrough

\* (mutant) a call that does not find both eyes closed clears the counter
BlinkCountAfter_ClearedByOpenEye(left_closed, right_closed, current_time) ==
    IF left_closed /\ right_closed
    THEN IF WithinBlinkWindow(current_time)
         THEN IF DoubleBlinkFires(current_time) THEN 0 ELSE blink_count + 1
         ELSE 1
    ELSE 0

\* (mutant) the counter is not set back to 0 when the double blink fires
BlinkCountAfter_KeptOnDoubleBlink(left_closed, right_closed, current_time) ==
    IF left_closed /\ right_closed
    THEN IF WithinBlinkWindow(current_time) THEN blink_count + 1 ELSE 1
    ELSE blink_count

\* self.blink_count after the call
BlinkCountAfter(left_closed, right_closed, current_time) ==
    IF left_closed /\ right_closed
    THEN IF WithinBlinkWindow(current_time)
         THEN IF DoubleBlinkFires(current_time) THEN 0 ELSE blink_count + 1
         ELSE 1
    ELSE blink_count

\* self.last_blink_time after the call: assigned on the paths of the
\* both-eyes-closed branch that do not return from inside it
LastBlinkTimeAfter(left_closed, right_closed, current_time) ==
    IF left_closed /\ right_closed /\ ~DoubleBlinkFires(current_time)
    THEN current_time
    ELSE last_blink_time

detect_gesture(left_ear, right_ear, current_time) ==
    LET left_closed == EyeClosed(left_ear)
        right_closed == EyeClosed(right_ear)
        lt == ClosedTimeAfter(left_closed, left_eye_closed_time, current_time)
        rt == ClosedTimeAfter(right_closed, right_eye_closed_time, current_time)
    IN  /\ left_eye_closed_time' = lt
        /\ right_eye_closed_time' = rt
        /\ blink_count' = BlinkCountAfter(left_closed, right_closed, current_time)
        /\ last_blink_time' = LastBlinkTimeAfter(left_closed, right_closed, current_time)
        /\ gesture' = GestureOf(left_closed, right_closed, lt, rt, current_time)

----------------------------------------------------------------------------
(* Landmark sets.                                                          *)
(*                                                                         *)
(* The landmark provider reports a face as a list of points normalised to  *)
(* the frame (here in thousandths).  A list is modelled by its length and  *)
(* by the pose that fixes the point at every index: the eye contour points *)
(* of the two EAR index lists, the two points calculate_gaze reads, and    *)
(* <<0, 0>> everywhere else.                                               *)

\* class constants of EyeTracker
LEFT_EYE_INDICES ==
    <<33, 7, 163, 144, 145, 153, 154, 155, 133, 173, 157, 158, 159, 160, 161, 246>>
RIGHT_EYE_INDICES ==
    <<362, 382, 381, 380, 374, 373, 390, 249, 263, 466, 388, 387, 386, 385, 384, 398>>
LEFT_EAR_INDICES == <<33, 160, 158, 133, 153, 144>>
RIGHT_EAR_INDICES == <<362, 385, 387, 263, 373, 380>>

\* max(eye_indices)
MaxOf(indices) ==
    CHOOSE m \in {indices[i] : i \in DOMAIN indices} :
        \A i \in DOMAIN indices : indices[i] <= m

\* the frames of a session: 200 x 100 pixels
FrameShape == [width |-> 200, height |-> 100]

\* An eye contour of width w and half-opening a around <<cx, cy>>, in pixels,
\* at the six positions of an EAR index list: the two corners (first and
\* fourth), and two upper points (second, third) above two lower ones
\* (sixth, fifth).
Contour(cx, cy, w, a) ==
    << <<cx, cy>>, <<cx + 10, cy - a>>, <<cx + 30, cy - a>>,
       <<cx + w, cy>>, <<cx + 30, cy + a>>, <<cx + 10, cy + a>> >>

PositionIn(indices, i) == CHOOSE k \in DOMAIN indices : indices[k] = i

\* the pixel a pose puts at index i
PosePixel(pose, i) ==
    IF i \in {LEFT_EAR_INDICES[k] : k \in DOMAIN LEFT_EAR_INDICES}
    THEN Contour(40, 40, pose.left_w, pose.left_a)[PositionIn(LEFT_EAR_INDICES, i)]
    ELSE IF i \in {RIGHT_EAR_INDICES[k] : k \in DOMAIN RIGHT_EAR_INDICES}
    THEN Contour(120, 40, pose.right_w, pose.right_a)[PositionIn(RIGHT_EAR_INDICES, i)]
    ELSE IF i = LEFT_EYE_INDICES[2] THEN pose.left_iris
    ELSE IF i = RIGHT_EYE_INDICES[2] THEN pose.right_iris
    ELSE <<0, 0>>

\* landmark.x and landmark.y of the provider's point at index i, in
\* thousandths of the frame
NormalisedPoint(pixel) ==
    << (pixel[1] * 1000) \div FrameShape.width,
       (pixel[2] * 1000) \div FrameShape.height >>

Normalised(pose, i) == NormalisedPoint(PosePixel(pose, i))

\* int(v / 1000): Python's int() truncates toward zero
IntOfThousandths(v) == IF v >= 0 THEN v \div 1000 ELSE -((-v) \div 1000)

\* x = int(landmark.x * self.frame_width), y = int(landmark.y * self.frame_height)
ToPixel(landmark, width, height) ==
    << IntOfThousandths(landmark[1] * width), IntOfThousandths(landmark[2] * height) >>

\* the indices the tracker reads
UsedIndices ==
    {LEFT_EAR_INDICES[k] : k \in DOMAIN LEFT_EAR_INDICES}
    \cup {RIGHT_EAR_INDICES[k] : k \in DOMAIN RIGHT_EAR_INDICES}
    \cup {LEFT_EYE_INDICES[2], RIGHT_EYE_INDICES[2]}

\* "Convert landmarks to pixel coordinates": the list `landmarks` of
\* process_frame, as its length and its points at the indices that exist
\* and are read
PixelLandmarks(face, width, height) ==
    [len |-> face.len,
     at |-> [i \in {j \in UsedIndices : j < face.len} |->
                ToPixel(Normalised(face.pose, i), width, height)]]

----------------------------------------------------------------------------
(* EyeTracker.calculate_ear, EyeTracker.calculate_gaze *)

Abs(v) == IF v >= 0 THEN v ELSE -v

\* the integer part of the square root of n, which is at most hi
SqrtUpTo(n, hi) == CHOOSE r \in 0..hi : r * r <= n /\ n < (r + 1) * (r + 1)

\* np.linalg.norm(p - q); exact on the contours above, whose measured
\* point pairs differ in one coordinate only
Norm(p, q) ==
    SqrtUpTo((p[1] - q[1]) * (p[1] - q[1]) + (p[2] - q[2]) * (p[2] - q[2]),
             Abs(p[1] - q[1]) + Abs(p[2] - q[2]))

\* what the float division yields for a positive numerator and a zero
\* divisor: inf, here a ratio above every ratio of the model
Infinite == 1000000

\* (mutant) the test of the horizontal distance is missing
calculate_ear_NoZeroTest(landmarks, eye_indices) ==
    IF landmarks.len < MaxOf(eye_indices) + 1 THEN 0
    ELSE LET vertical_1 == Norm(landmarks.at[eye_indices[2]], landmarks.at[eye_indices[6]])
             vertical_2 == Norm(landmarks.at[eye_indices[3]], landmarks.at[eye_indices[5]])
             horizontal == Norm(landmarks.at[eye_indices[1]], landmarks.at[eye_indices[4]])
         IN  IF horizontal = 0 THEN Infinite
             ELSE (100 * (vertical_1 + vertical_2)) \div (2 * horizontal)

\* (mutant) a list that is too short counts as an open eye (1.0)
calculate_ear_ShortIsOpen(landmarks, eye_indices) ==
    IF landmarks.len < MaxOf(eye_indices) + 1 THEN 100
    ELSE LET vertical_1 == Norm(landmarks.at[eye_indices[2]], landmarks.at[eye_indices[6]])
             vertical_2 == Norm(landmarks.at[eye_indices[3]], landmarks.at[eye_indices[5]])
             horizontal == Norm(landmarks.at[eye_indices[1]], landmarks.at[eye_indices[4]])
         IN  IF horizontal = 0 THEN 0
             ELSE (100 * (vertical_1 + vertical_2)) \div (2 * horizontal)

\* the EAR in hundredths; exact on the contours above, rounded down to a
\* hundredth on other points
calculate_ear(landmarks, eye_indices) ==
    IF landmarks.len < MaxOf(eye_indices) + 1 THEN 0
    ELSE LET p1 == landmarks.at[eye_indices[1]]
             p2 == landmarks.at[eye_indices[2]]
             p3 == landmarks.at[eye_indices[3]]
             p4 == landmarks.at[eye_indices[4]]
             p5 == landmarks.at[eye_indices[5]]
             p6 == landmarks.at[eye_indices[6]]
             vertical_1 == Norm(p2, p6)
             vertical_2 == Norm(p3, p5)
             horizontal == Norm(p1, p4)
         IN  IF horizontal = 0 THEN 0
             ELSE (100 * (vertical_1 + vertical_2)) \div (2 * horizontal)

\* (mutant) each component is tested and defaulted on its own
calculate_gaze_PerComponent(landmarks, eye_indices, width, height) ==
    IF landmarks.len < MaxOf(eye_indices) + 1 THEN <<500, 500>>
    ELSE LET iris_center == landmarks.at[eye_indices[2]]
         IN  << IF width > 0 THEN (iris_center[1] * 1000) \div width ELSE 500,
                IF height > 0 THEN (iris_center[2] * 1000) \div height ELSE 500 >>

\* the gaze in thousandths, for a tracker whose frame dimensions are
\* width and height
calculate_gaze(landmarks, eye_indices, width, height) ==
    IF landmarks.len < MaxOf(eye_indices) + 1 THEN <<500, 500>>
    ELSE LET iris_center == landmarks.at[eye_indices[2]]
         IN  IF width > 0 /\ height > 0
             THEN << (iris_center[1] * 1000) \div width,
                     (iris_center[2] * 1000) \div height >>
             ELSE <<500, 500>>

----------------------------------------------------------------------------
(* EyeTracker.process_frame *)

\* (mutant) pop() for pop(0): the newest point is dropped
GazeHistoryAfter_DropsNewest(combined_gaze) ==
    LET appended == Append(gaze_history, combined_gaze)
    IN  IF Len(appended) > gaze_history_max
        THEN SubSeq(appended, 1, Len(appended) - 1)
        ELSE appended

\* "Update gaze history"
GazeHistoryAfter(combined_gaze) ==
    LET appended == Append(gaze_history, combined_gaze)
    IN  IF Len(appended) > gaze_history_max THEN Tail(appended) ELSE appended

\* (mutant) a frame without a face yields a zeroed EyeData
NoFaceResult_Zeroed ==
    [kind |-> "EyeData", left_ear |-> 0, right_ear |-> 0,
     left_gaze |-> <<500, 500>>, right_gaze |-> <<500, 500>>,
     combined_gaze |-> <<500, 500>>, is_blinking |-> FALSE,
     gesture |-> "none", landmarks |-> [len |-> 0, at |-> <<>>]]

\* what process_frame returns for a frame without a face
NoFaceResult == NoneRecord

\* (mutant) `and` for `or` in is_blinking
MeasuredFrom_BlinkNeedsBoth(landmarks, left_ear, right_ear, left_gaze, right_gaze) ==
    [left_ear |-> left_ear, right_ear |-> right_ear,
     left_gaze |-> left_gaze, right_gaze |-> right_gaze,
     combined_gaze |-> << (left_gaze[1] + right_gaze[1]) \div 2,
                          (left_gaze[2] + right_gaze[2]) \div 2 >>,
     is_blinking |-> left_ear < ear_threshold /\ right_ear < ear_threshold,
     landmarks |-> landmarks]

\* (mutant) is_blinking looks at the left eye only
MeasuredFrom_BlinkLeftOnly(landmarks, left_ear, right_ear, left_gaze, right_gaze) ==
    [left_ear |-> left_ear, right_ear |-> right_ear,
     left_gaze |-> left_gaze, right_gaze |-> right_gaze,
     combined_gaze |-> << (left_gaze[1] + right_gaze[1]) \div 2,
                          (left_gaze[2] + right_gaze[2]) \div 2 >>,
     is_blinking |-> left_ear < ear_threshold,
     landmarks |-> landmarks]

\* the fields of the EyeData that process_frame computes before it calls
\* detect_gesture, for a tracker whose frame dimensions are width and height
MeasuredFrom(landmarks, left_ear, right_ear, left_gaze, right_gaze) ==
    [left_ear |-> left_ear, right_ear |-> right_ear,
     left_gaze |-> left_gaze, right_gaze |-> right_gaze,
     combined_gaze |-> << (left_gaze[1] + right_gaze[1]) \div 2,
                          (left_gaze[2] + right_gaze[2]) \div 2 >>,
     is_blinking |-> left_ear < ear_threshold \/ right_ear < ear_threshold,
     landmarks |-> landmarks]

MeasuredOn(landmarks, width, height) ==
    MeasuredFrom(landmarks,
                 calculate_ear(landmarks, LEFT_EAR_INDICES),
                 calculate_ear(landmarks, RIGHT_EAR_INDICES),
                 calculate_gaze(landmarks, LEFT_EYE_INDICES, width, height),
                 calculate_gaze(landmarks, RIGHT_EYE_INDICES, width, height))

EyeDataOf(face_landmarks, width, height) ==
    MeasuredOn(PixelLandmarks(face_landmarks, width, height), width, height)

\* (mutant) a frame without a face counts as a frame with both eyes open:
\* the eye timers are cleared
process_frame_NoFaceOpensEyes(multi_face_landmarks, timestamp) ==
    /\ IF frame_width = 0 \/ frame_height = 0
       THEN /\ frame_width' = FrameShape.width
            /\ frame_height' = FrameShape.height
       ELSE UNCHANGED <<frame_width, frame_height>>
    /\ IF multi_face_landmarks = <<>>
       THEN /\ eye_data' = NoFaceResult
            /\ left_eye_closed_time' = 0
            /\ right_eye_closed_time' = 0
            /\ UNCHANGED <<last_blink_time, blink_count, gaze_history, gesture>>
       ELSE \E data \in {EyeDataOf(multi_face_landmarks[1], frame_width', frame_height')} :
                /\ gaze_history' = GazeHistoryAfter(data.combined_gaze)
                /\ detect_gesture(data.left_ear, data.right_ear, timestamp)
                /\ eye_data' = [kind |-> "EyeData",
                                left_ear |-> data.left_ear,
                                right_ear |-> data.right_ear,
                                left_gaze |-> data.left_gaze,
                                right_gaze |-> data.right_gaze,
                                combined_gaze |-> data.combined_gaze,
                                is_blinking |-> data.is_blinking,
                                gesture |-> gesture',
                                landmarks |-> data.landmarks]

\* multi_face_landmarks is results.multi_face_landmarks: no face, or one
process_frame(multi_face_landmarks, timestamp) ==
    /\ IF frame_width = 0 \/ frame_height = 0
       THEN /\ frame_width' = FrameShape.width
            /\ frame_height' = FrameShape.height
       ELSE UNCHANGED <<frame_width, frame_height>>
    /\ IF multi_face_landmarks = <<>>
       THEN /\ eye_data' = NoFaceResult
            /\ UNCHANGED <<metrics, gesture>>
       ELSE \E data \in {EyeDataOf(multi_face_landmarks[1], frame_width', frame_height')} :
                /\ gaze_history' = GazeHistoryAfter(data.combined_gaze)
                /\ detect_gesture(data.left_ear, data.right_ear, timestamp)
                /\ eye_data' = [kind |-> "EyeData",
                                left_ear |-> data.left_ear,
                                right_ear |-> data.right_ear,
                                left_gaze |-> data.left_gaze,
                                right_gaze |-> data.right_gaze,
                                combined_gaze |-> data.combined_gaze,
                                is_blinking |-> data.is_blinking,
                                gesture |-> gesture',
                                landmarks |-> data.landmarks]

----------------------------------------------------------------------------
(* EyeTracker.reset_metrics *)

\* (mutant) the blink counter is not reset
reset_metrics_KeepsBlinkCount ==
    /\ left_eye_closed_time' = 0
    /\ right_eye_closed_time' = 0
    /\ last_blink_time' = 0
    /\ blink_count' = blink_count
    /\ gaze_history' = <<>>

\* (mutant) the history loses its oldest point instead of being cleared
reset_metrics_DropsOnePoint ==
    /\ left_eye_closed_time' = 0
    /\ right_eye_closed_time' = 0
    /\ last_blink_time' = 0
    /\ blink_count' = 0
    /\ gaze_history' = IF gaze_history = <<>> THEN <<>> ELSE Tail(gaze_history)

reset_metrics ==
    /\ left_eye_closed_time' = 0
    /\ right_eye_closed_time' = 0
    /\ last_blink_time' = 0
    /\ blink_count' = 0
    /\ gaze_history' = <<>>

----------------------------------------------------------------------------
(* EyeTracker.get_gaze_history                                             *)
(*                                                                         *)
(* A Python list is an object: the caller's list is either the tracker's   *)
(* own list object (shared) or another one.  `held` records which, and the *)
(* items the caller sees in it.                                            *)

\* (mutant) the list itself is returned, not a copy
get_gaze_history_NoCopy ==
    [kind |-> "list", shared |-> TRUE, items |-> gaze_history, edits |-> 0]

\* return self.gaze_history.copy()
get_gaze_history ==
    [kind |-> "list", shared |-> FALSE, items |-> gaze_history, edits |-> 0]

\* the caller's list once the tracker's list holds `own`: append, pop(0) and
\* clear() change the tracker's list object in place
HeldAfter(own) ==
    IF held.kind = "list" /\ held.shared THEN [held EXCEPT !.items = own] ELSE held

\* the tracker's list once the caller's list holds `items`
OwnAfter(items) ==
    IF held.kind = "list" /\ held.shared THEN items ELSE gaze_history

----------------------------------------------------------------------------
(* History variables.  They record what the calls did, for the properties  *)
(* below; the tracker never reads them.                                    *)

Min(a, b) == IF a < b THEN a ELSE b

WinkOf(eye) == IF eye = "left" THEN "left_wink" ELSE "right_wink"

\* `run` follows one single-eye closure made of calls that pass the ratio
\* 0.4 for an open eye and 0.1 for a closed one.  It is "open" after a call
\* that saw both eyes open, and then records the eye that closed alone, the
\* timestamp of the first closed call, how many calls of the closure
\* returned that eye's wink (counted up to 2), whether a closed call's
\* duration since the first closed call lay in wink_duration, and whether
\* the first such call returned the wink.
RunAfter(left_ear, right_ear, current_time, result) ==
    LET lc == left_ear < ear_threshold
        rc == right_ear < ear_threshold
        eye == IF lc THEN "left" ELSE "right"
        won == result = WinkOf(eye)
    IN  IF left_ear = 30 \/ right_ear = 30 \/ (lc /\ rc) THEN NoRun
        ELSE IF ~lc /\ ~rc THEN [eye |-> "open"]
        ELSE IF run.eye = "open"
        THEN [eye |-> eye, start |-> current_time,
              winks |-> IF won THEN 1 ELSE 0,
              inrange |-> InWinkDuration(0),
              first |-> InWinkDuration(0) /\ won]
        ELSE IF run.eye = eye
        THEN LET inr == InWinkDuration(current_time - run.start)
             IN  [eye |-> eye, start |-> run.start,
                  winks |-> Min(run.winks + (IF won THEN 1 ELSE 0), 2),
                  inrange |-> run.inrange \/ inr,
                  first |-> IF run.inrange THEN run.first ELSE inr /\ won]
        ELSE NoRun

\* `dbl` follows the both-eyes-closed calls since construction or the last
\* reset for as long as each comes 0.3 s after the one before: how many
\* there were (up to three), the timestamp of the latest and what each
\* returned; n = -1 once a call broke the spacing
DblAfter(left_ear, right_ear, current_time, result) ==
    IF ~(left_ear < ear_threshold /\ right_ear < ear_threshold) THEN dbl
    ELSE IF dbl.n = 0
    THEN [n |-> 1, last |-> current_time, res |-> <<result>>]
    ELSE IF dbl.n \in {1, 2} /\ current_time - dbl.last = 3
    THEN [n |-> dbl.n + 1, last |-> current_time, res |-> Append(dbl.res, result)]
    ELSE IF dbl.n = 3 THEN dbl
    ELSE [n |-> -1]

\* `closed_since` holds, for each eye, the timestamp of the first call of
\* the current uninterrupted run of calls that found the eye closed (as a
\* one-element sequence), or <<>> when the latest call found it open
SinceAfter(closed, since, current_time) ==
    IF closed THEN (IF since = <<>> THEN <<current_time>> ELSE since) ELSE <<>>

\* how an eye's current run of closed calls stands to the other eye: "open"
\* when the latest call found the eye open; "alone" when the run began with
\* the other eye open; "joined" when, after that, a call found the other
\* eye closed too while less than the wink minimum had passed since the
\* run began; "together" when the run began with both eyes closed
ModeAfter(closed, other_closed, mode, since, current_time) ==
    IF ~closed THEN "open"
    ELSE IF mode = "open" THEN (IF other_closed THEN "together" ELSE "alone")
    ELSE IF mode = "alone" /\ other_closed /\ current_time - since[1] < wink_duration[1]
    THEN "joined"
    ELSE mode

ClosedSinceAfter(left_ear, right_ear, current_time) ==
    [left |-> SinceAfter(left_ear < ear_threshold, closed_since.left, current_time),
     right |-> SinceAfter(right_ear < ear_threshold, closed_since.right, current_time),
     left_mode |-> ModeAfter(left_ear < ear_threshold, right_ear < ear_threshold,
                             closed_since.left_mode, closed_since.left, current_time),
     right_mode |-> ModeAfter(right_ear < ear_threshold, left_ear < ear_threshold,
                              closed_since.right_mode, closed_since.right, current_time)]

\* `args` holds the arguments of the latest detect_gesture call, made by the
\* caller or by process_frame, and the threshold it ran with
ArgsOf(left_ear, right_ear, current_time) ==
    [left_ear |-> left_ear, right_ear |-> right_ear,
     current_time |-> current_time, ear_threshold |-> ear_threshold]

----------------------------------------------------------------------------
(* The operations a caller performs on a tracker. *)

\* a direct call of detect_gesture, with a timestamp not before the latest;
\* the flags say which history variables follow the call
DetectGestureCall(follow_run, follow_dbl, follow_since) ==
    \E left_ear \in EarValues, right_ear \in EarValues, d \in 0..MaxStep :
        LET current_time == clock + d
        IN  /\ current_time <= MaxTime
            /\ detect_gesture(left_ear, right_ear, current_time)
            /\ clock' = current_time
            /\ lastop' = "detect_gesture"
            /\ args' = ArgsOf(left_ear, right_ear, current_time)
            /\ run' = IF follow_run
                      THEN RunAfter(left_ear, right_ear, current_time, gesture')
                      ELSE run
            /\ dbl' = IF follow_dbl
                      THEN DblAfter(left_ear, right_ear, current_time, gesture')
                      ELSE dbl
            /\ closed_since' = IF follow_since
                               THEN ClosedSinceAfter(left_ear, right_ear, current_time)
                               ELSE closed_since
            /\ cleared' = NoneRecord
            /\ UNCHANGED <<config, gaze_history, eye_data, pushed, caller, gui, web, logs>>

\* an assignment to the tracker's ear_threshold between two calls
SetEarThreshold ==
    \E th \in EarThresholds \ {ear_threshold} :
        /\ ear_threshold' = th
        /\ lastop' = "set ear_threshold"
        /\ UNCHANGED <<wink_duration, gaze_history_max, frame_width, frame_height,
                       metrics, clock, args, gesture, eye_data, history, caller, gui, web, logs>>

\* what a reset found set: history points, eye timers, double-blink state;
\* and whether the call before it was a reset too
ClearedNow ==
    [kind |-> "cleared", points |-> Len(gaze_history),
     timers |-> left_eye_closed_time # 0 \/ right_eye_closed_time # 0,
     blinks |-> blink_count # 0 \/ last_blink_time # 0,
     again |-> lastop = "reset_metrics"]

ResetMetricsCall ==
    /\ reset_metrics
    /\ lastop' = "reset_metrics"
    /\ run' = NoRun
    /\ dbl' = NoDbl
    /\ pushed' = <<>>
    /\ cleared' = ClearedNow
    /\ closed_since' = NoSince
    /\ held' = HeldAfter(gaze_history')
    /\ UNCHANGED <<config, clock, args, gesture, eye_data, measure, gui, web, logs>>

\* EyeTrackingApp.initialize_components: the frame dimensions of the input
SetFrameDimensions ==
    /\ frame_width # FrameShape.width \/ frame_height # FrameShape.height
    /\ frame_width' = FrameShape.width
    /\ frame_height' = FrameShape.height
    /\ lastop' = "set_frame_dimensions"
    /\ UNCHANGED <<ear_threshold, wink_duration, gaze_history_max,
                   metrics, clock, args, gesture, eye_data, history, caller, gui, web, logs>>

\* a face: a landmark list of the given length, with eye contours of the
\* given width and the given half-openings, looking at the k-th position of
\* a sweep across the frame
FaceOfWidth(len, w, left_a, right_a, k) ==
    [len |-> len,
     pose |-> [left_w |-> w, left_a |-> left_a,
               right_w |-> w, right_a |-> right_a,
               left_iris |-> <<40 + k, 40>>, right_iris |-> <<120 + k, 40>>]]

\* a face with eye contours 40 pixels wide
Face(len, left_a, right_a, k) == FaceOfWidth(len, 40, left_a, right_a, k)

\* a face whose eye corners coincide: the horizontal distance is 0
CollapsedFace(k) == FaceOfWidth(478, 0, 8, 8, k)

\* landmark lists too short for both eyes, for the right eye, for the right
\* eye's gaze, and complete (MediaPipe reports 478 points)
LandmarkCounts == {100, 300, 400, 478}

\* half-openings: EAR 0.1 and EAR 0.4 on a contour 40 pixels wide
Openings == {2, 8}

\* the faces of a short session: any length, any eye state, or degenerate
SessionFaces ==
    {Face(len, la, ra, Len(pushed)) :
        len \in LandmarkCounts, la \in Openings, ra \in Openings}
    \cup {CollapsedFace(Len(pushed))}

\* the faces of a long session: complete landmark lists, eyes open
SweepFaces == {Face(478, 8, 8, Len(pushed))}

\* process_frame on the next frame, `steps` after the latest call and not
\* after `horizon`: with a face while the session has frames left, or
\* without one
ProcessedFrame(faces, frames, steps, horizon) ==
    \E found \in {<<>>} \cup {<<face>> : face \in faces}, d \in steps :
        LET timestamp == clock + d
        IN  /\ timestamp <= horizon
            /\ found # <<>> => Len(pushed) < frames
            /\ process_frame(found, timestamp)
            /\ clock' = timestamp
            /\ lastop' = IF found = <<>> THEN "process_frame without a face"
                         ELSE "process_frame with a face"
            /\ args' = IF found = <<>> THEN args
                       ELSE ArgsOf(eye_data'.left_ear, eye_data'.right_ear, timestamp)
            /\ pushed' = IF found = <<>> THEN pushed
                         ELSE Append(pushed, eye_data'.combined_gaze)
            /\ cleared' = NoneRecord
            /\ held' = HeldAfter(gaze_history')
            /\ UNCHANGED <<ear_threshold, wink_duration, gaze_history_max,
                           run, dbl, closed_since, measure>>

\* a call of process_frame by a caller that owns the tracker
ProcessFrameCall(faces, frames, steps, horizon) ==
    /\ ProcessedFrame(faces, frames, steps, horizon)
    /\ UNCHANGED <<gui, web, logs>>

\* a call of get_gaze_history; the caller keeps the list it returns
GetGazeHistoryCall ==
    /\ held' = get_gaze_history
    /\ lastop' = "get_gaze_history"
    /\ cleared' = NoneRecord
    /\ UNCHANGED <<config, metrics, clock, args, gesture, eye_data,
                   run, dbl, pushed, closed_since, measure, gui, web, logs>>

\* the list after the caller's statement: append(point), pop(0) or clear()
EditedList(items, statement) ==
    IF statement = "append" THEN Append(items, <<0, 0>>)
    ELSE IF statement = "remove" THEN (IF items = <<>> THEN items ELSE Tail(items))
    ELSE <<>>

\* the caller changes the list it holds; a change of the tracker's own list
\* object is a change of the tracker's history
CallerEdits ==
    \E statement \in {"append", "remove", "clear"} :
        /\ held.kind = "list"
        /\ held.edits < MaxEdits
        /\ EditedList(held.items, statement) # held.items
        /\ held' = [held EXCEPT !.items = EditedList(held.items, statement),
                                !.edits = held.edits + 1]
        /\ gaze_history' = OwnAfter(EditedList(held.items, statement))
        /\ lastop' = "caller edits the list"
        /\ cleared' = NoneRecord
        /\ UNCHANGED <<config, left_eye_closed_time, right_eye_closed_time,
                       last_blink_time, blink_count, clock, args, gesture,
                       eye_data, run, dbl, pushed, closed_since, measure, gui, web, logs>>

\* the dimensions an input source reports: those of its frames, or 0 for a
\* dimension it does not know
ReportedShapes ==
    {<<w, h>> : w \in {0, FrameShape.width}, h \in {0, FrameShape.height}}

\* set_frame_dimensions with what the input source reports
SetReportedDimensions ==
    \E shape \in ReportedShapes \ {<<frame_width, frame_height>>} :
        /\ frame_width' = shape[1]
        /\ frame_height' = shape[2]
        /\ lastop' = "set_frame_dimensions"
        /\ UNCHANGED <<ear_threshold, wink_duration, gaze_history_max,
                       metrics, clock, args, gesture, eye_data, history, caller, gui, web, logs>>

\* a landmark list of pixel coordinates given directly: its length, and its
\* points at the indices that exist and are read, <<0, 0>> where `points`
\* names none
LandmarksWith(len, points) ==
    [len |-> len,
     at |-> [i \in {j \in UsedIndices : j < len} |->
                IF i \in DOMAIN points THEN points[i] ELSE <<0, 0>>]]

\* pixels whose distances from one another are whole numbers (6, 8, 10):
\* for the upper points of an eye, for its lower points, for its corners
ContourPixels == {<<40, 40>>, <<40, 32>>, <<46, 40>>}
LowerPixels == {<<40, 40>>, <<40, 32>>}
CornerPixels == {<<40, 40>>, <<46, 40>>}

\* pixels inside the frame, on its edges and outside it
IrisPixels == {<<0, 0>>, <<60, 40>>, <<200, 100>>, <<250, 40>>, <<60, 110>>, <<-10, 40>>}

EarIndexLists == {LEFT_EAR_INDICES, RIGHT_EAR_INDICES}
EyeIndexLists == {LEFT_EYE_INDICES, RIGHT_EYE_INDICES}

\* lengths around the length an index list needs
LengthsAround(indices) == {0, MaxOf(indices), MaxOf(indices) + 1, 478}

\* the lengths at which a landmark list becomes long enough for one of the
\* four index lists, the lengths just below them, the empty list and the
\* complete one
BoundaryCounts ==
    {0, 478} \cup UNION {{MaxOf(indices), MaxOf(indices) + 1} :
                            indices \in EarIndexLists \cup EyeIndexLists}

\* the thresholds of a session that also tries a very low one (0.01)
MeasureThresholds == {1, 25}

\* faces for the measurements: open eyes on a list of every boundary
\* length, and every pair of openings on a complete list
MeasureFaces ==
    {Face(len, 8, 8, Len(pushed)) : len \in BoundaryCounts}
    \cup {Face(478, la, ra, Len(pushed)) : la \in Openings, ra \in Openings}

\* an assignment of one of `thresholds` to the tracker's ear_threshold
SetEarThresholdTo(thresholds) ==
    \E th \in thresholds \ {ear_threshold} :
        /\ ear_threshold' = th
        /\ lastop' = "set ear_threshold"
        /\ UNCHANGED <<wink_duration, gaze_history_max, frame_width, frame_height,
                       metrics, clock, args, gesture, eye_data, history, caller, gui, web, logs>>

\* a direct call of calculate_ear on six points of the caller's choice
CalculateEarCall ==
    \E eye_indices \in EarIndexLists,
       p1 \in CornerPixels, p2 \in ContourPixels, p3 \in ContourPixels,
       p4 \in CornerPixels, p5 \in LowerPixels, p6 \in LowerPixels :
        \E landmarks \in {LandmarksWith(len,
                [i \in {eye_indices[k] : k \in 1..6} |->
                    <<p1, p2, p3, p4, p5, p6>>[PositionIn(eye_indices, i)]]) :
                            len \in LengthsAround(eye_indices)} :
            /\ measure' = [kind |-> "call", op |-> "calculate_ear", landmarks |-> landmarks,
                           eye_indices |-> eye_indices,
                           value |-> calculate_ear(landmarks, eye_indices)]
            /\ lastop' = "calculate_ear"
            /\ UNCHANGED <<config, metrics, clock, args, gesture, eye_data,
                           history, held, gui, web, logs>>

\* a direct call of calculate_gaze on an iris point of the caller's choice
CalculateGazeCall ==
    \E eye_indices \in EyeIndexLists, iris \in IrisPixels :
        \E landmarks \in {LandmarksWith(len, [i \in {eye_indices[2]} |-> iris]) :
                            len \in LengthsAround(eye_indices)} :
            /\ measure' = [kind |-> "call", op |-> "calculate_gaze", landmarks |-> landmarks,
                           eye_indices |-> eye_indices,
                           width |-> frame_width, height |-> frame_height,
                           value |-> calculate_gaze(landmarks, eye_indices,
                                                    frame_width, frame_height)]
            /\ lastop' = "calculate_gaze"
            /\ UNCHANGED <<config, metrics, clock, args, gesture, eye_data,
                           history, held, gui, web, logs>>

----------------------------------------------------------------------------
(* DataLogger: the buffer of rows and the CSV file; a row is its frame
   number and whether it carries the values of a face. *)

\* DataLogger.__init__: an empty buffer, a file with the header only
NewDataLogger ==
    [kind |-> "DataLogger", data_buffer |-> <<>>, buffer_size |-> 100,
     log_file |-> <<>>, closed |-> FALSE]

\* (mutant) the buffer is written and not cleared
flush_buffer_KeepsRows(logger) ==
    IF logger.data_buffer = <<>> THEN logger
    ELSE [logger EXCEPT !.log_file = logger.log_file \o logger.data_buffer]

\* DataLogger._flush_buffer: the buffered rows go to the end of the file
flush_buffer(logger) ==
    IF logger.data_buffer = <<>> THEN logger
    ELSE [logger EXCEPT !.log_file = logger.log_file \o logger.data_buffer,
                        !.data_buffer = <<>>]

\* the log_entry of a frame
Row(frame_number, face) == [frame_number |-> frame_number, face |-> face]

\* DataLogger.log_eye_data: one more row, flushed when the buffer is full
log_eye_data(logger, frame_number) ==
    LET appended == [logger EXCEPT !.data_buffer =
                        Append(logger.data_buffer, Row(frame_number, TRUE))]
    IN  IF Len(appended.data_buffer) >= appended.buffer_size
        THEN flush_buffer(appended)
        ELSE appended

\* DataLogger.log_no_face_detected: the same with a row of empty values
log_no_face_detected(logger, frame_number) ==
    LET appended == [logger EXCEPT !.data_buffer =
                        Append(logger.data_buffer, Row(frame_number, FALSE))]
    IN  IF Len(appended.data_buffer) >= appended.buffer_size
        THEN flush_buffer(appended)
        ELSE appended

\* DataLogger.close; `closed` records that it was called
close(logger) == [flush_buffer(logger) EXCEPT !.closed = TRUE]

\* the most records logged to one DataLogger
MaxLogged == 102
\* the most frames without a face at the beginning of a session
MaxNoFace == 1

\* a step of a caller that owns only a DataLogger
OnlyLoggerChanges ==
    UNCHANGED <<config, metrics, clock, args, gesture, eye_data, history, caller,
                running, capture_thread, input_handler, eye_tracker, ui, capture,
                ended, web>>

\* the latest call and the rows it added to the file
LogCallOf(op, before, after) ==
    [op |-> op, wrote |-> Len(after.log_file) - Len(before.log_file),
     again |-> logcall.op = op]

\* DataLogger()
CreateDataLogger ==
    /\ data_logger = NoneRecord
    /\ data_logger' = NewDataLogger
    /\ logged' = <<>>
    /\ logcall' = NoLogCall
    /\ lastop' = "DataLogger"
    /\ OnlyLoggerChanges

\* log_eye_data for the next frame
LogEyeDataCall ==
    /\ data_logger # NoneRecord
    /\ Len(logged) < MaxLogged
    /\ data_logger' = log_eye_data(data_logger, Len(logged) + 1)
    /\ logged' = Append(logged, Row(Len(logged) + 1, TRUE))
    /\ logcall' = LogCallOf("log_eye_data", data_logger, data_logger')
    /\ lastop' = "log_eye_data"
    /\ OnlyLoggerChanges

\* log_no_face_detected for the next frame; the frames without a face are
\* the first ones of the session
LogNoFaceCall ==
    /\ data_logger # NoneRecord
    /\ Len(logged) < MaxNoFace
    /\ \A i \in 1..Len(logged) : ~logged[i].face
    /\ data_logger' = log_no_face_detected(data_logger, Len(logged) + 1)
    /\ logged' = Append(logged, Row(Len(logged) + 1, FALSE))
    /\ logcall' = LogCallOf("log_no_face_detected", data_logger, data_logger')
    /\ lastop' = "log_no_face_detected"
    /\ OnlyLoggerChanges

\* close(); the logger stays usable
CloseCall ==
    /\ data_logger # NoneRecord
    /\ data_logger' = close(data_logger)
    /\ logcall' = LogCallOf("close", data_logger, data_logger')
    /\ lastop' = "close"
    /\ UNCHANGED logged
    /\ OnlyLoggerChanges

----------------------------------------------------------------------------
(* EyeTrackingGUI: start and stop run in the Tk main loop, _run_loop in the
   capture thread; a step of either thread is one action. *)

\* the latest timestamp of a frame of the GUI's input, in tenths of a second
MaxGuiTime == 3
\* the most frames with a face in one run of the capture loop
MaxGuiFrames == 2

\* the faces in front of the GUI's camera: complete, any eye state
GuiFaces == {Face(478, la, ra, Len(pushed)) : la \in Openings, ra \in Openings}

\* a step of the GUI that does not call the tracker
TrackerUntouched ==
    UNCHANGED <<config, metrics, clock, args, gesture, eye_data, history, caller>>

\* start() when the input source cannot be opened: the handler is kept,
\* nothing else is created
StartFails ==
    /\ ui = "idle"
    /\ ~running
    /\ capture_thread # "alive"
    /\ input_handler' = "failed"
    /\ running' = FALSE
    /\ ended' = "none"
    /\ lastop' = "start failed"
    /\ TrackerUntouched
    /\ UNCHANGED <<web, logs>>
    /\ UNCHANGED <<capture_thread, eye_tracker, data_logger, ui, capture>>

\* start(): new components, a new tracker with the slider's threshold and
\* the input's dimensions, and a new capture thread. The user presses Start
\* only after the capture thread of the former run has ended.
Start ==
    \E th \in EarThresholds :
        /\ ui = "idle"
        /\ ~running
        /\ capture_thread # "alive"
        /\ running' = TRUE
        /\ input_handler' = "open"
        /\ eye_tracker' = "live"
        /\ data_logger' = NewDataLogger
        /\ capture_thread' = "alive"
        /\ capture' = [at |-> "while", frame_count |-> 0, caught |-> FALSE]
        /\ ended' = "none"
        /\ ear_threshold' = th
        /\ wink_duration' = <<DefaultWinkMin, DefaultWinkMax>>
        /\ left_eye_closed_time' = 0
        /\ right_eye_closed_time' = 0
        /\ last_blink_time' = 0
        /\ blink_count' = 0
        /\ gaze_history' = <<>>
        /\ gaze_history_max' = GazeHistoryMax
        /\ frame_width' = FrameShape.width
        /\ frame_height' = FrameShape.height
        /\ lastop' = "start"
        /\ args' = NoArgs
        /\ gesture' = "nocall"
        /\ eye_data' = [kind |-> "nocall"]
        /\ pushed' = <<>>
        /\ UNCHANGED <<clock, run, dbl, cleared, closed_since, caller, ui, web, logs>>

\* `while self.running:` found true
LoopContinues ==
    /\ capture.at = "while"
    /\ running
    /\ capture' = [capture EXCEPT !.at = "read_frame"]
    /\ lastop' = "while"
    /\ TrackerUntouched
    /\ UNCHANGED <<web, logs>>
    /\ UNCHANGED <<running, capture_thread, input_handler, eye_tracker,
                   data_logger, ui, ended>>

\* `while self.running:` found false: on to the stop() after the loop
LoopSeesStop ==
    /\ capture.at = "while"
    /\ ~running
    /\ capture' = [capture EXCEPT !.at = "stop"]
    /\ ended' = "stop requested"
    /\ lastop' = "while"
    /\ TrackerUntouched
    /\ UNCHANGED <<web, logs>>
    /\ UNCHANGED <<running, capture_thread, input_handler, eye_tracker,
                   data_logger, ui>>

\* read_frame gives a frame: the source is open and has frames left
ReadFrame ==
    /\ capture.at = "read_frame"
    /\ input_handler = "open"
    /\ clock < MaxGuiTime
    /\ capture' = [capture EXCEPT !.at = "process_frame",
                                  !.frame_count = capture.frame_count + 1]
    /\ lastop' = "read_frame"
    /\ TrackerUntouched
    /\ UNCHANGED <<web, logs>>
    /\ UNCHANGED <<running, capture_thread, input_handler, eye_tracker,
                   data_logger, ui, ended>>

\* read_frame fails (the video ended, the camera failed, or the handler was
\* released): break, on to the stop() after the loop
ReadFrameFails ==
    /\ capture.at = "read_frame"
    /\ capture' = [capture EXCEPT !.at = "stop"]
    /\ ended' = "read_frame failed"
    /\ lastop' = "read_frame"
    /\ TrackerUntouched
    /\ UNCHANGED <<web, logs>>
    /\ UNCHANGED <<running, capture_thread, input_handler, eye_tracker,
                   data_logger, ui>>

\* the rest of an iteration: process_frame, which never returns None, and
\* log_eye_data
ProcessAndLog ==
    /\ capture.at = "process_frame"
    /\ eye_tracker = "live"
    /\ ProcessedFrame(GuiFaces, MaxGuiFrames, {1}, MaxGuiTime)
    /\ data_logger' = log_eye_data(data_logger, capture.frame_count)
    /\ capture' = [capture EXCEPT !.at = "while"]
    /\ UNCHANGED <<running, capture_thread, input_handler, eye_tracker, ui, ended,
                   web, logs>>

\* an exception in the rest of an iteration: on to the except clause
LoopRaises ==
    /\ capture.at = "process_frame"
    /\ capture' = [capture EXCEPT !.at = "stop", !.caught = TRUE]
    /\ ended' = "exception"
    /\ lastop' = "exception"
    /\ TrackerUntouched
    /\ UNCHANGED <<web, logs>>
    /\ UNCHANGED <<running, capture_thread, input_handler, eye_tracker,
                   data_logger, ui>>

\* stop() called by the capture thread finds running false and returns:
\* _run_loop returns and the thread ends
CaptureStopReturns ==
    /\ capture.at = "stop"
    /\ ~running
    /\ capture' = [capture EXCEPT !.at = "finished"]
    /\ capture_thread' = "finished"
    /\ lastop' = "stop returns"
    /\ TrackerUntouched
    /\ UNCHANGED <<web, logs>>
    /\ UNCHANGED <<running, input_handler, eye_tracker, data_logger, ui, ended>>

\* stop() called by the capture thread finds running true
CaptureStopTest ==
    /\ capture.at = "stop"
    /\ running
    /\ capture' = [capture EXCEPT !.at = "stop_set"]
    /\ lastop' = "stop"
    /\ TrackerUntouched
    /\ UNCHANGED <<web, logs>>
    /\ UNCHANGED <<running, capture_thread, input_handler, eye_tracker,
                   data_logger, ui, ended>>

\* ... and sets it false
CaptureStopSet ==
    /\ capture.at = "stop_set"
    /\ running' = FALSE
    /\ capture' = [capture EXCEPT !.at = "stop_join"]
    /\ lastop' = "stop"
    /\ TrackerUntouched
    /\ UNCHANGED <<web, logs>>
    /\ UNCHANGED <<capture_thread, input_handler, eye_tracker, data_logger,
                   ui, ended>>

\* ... and joins the capture thread, which is itself and alive: join raises
\* RuntimeError before the cleanup. Raised by the stop() after the loop, it
\* is caught by the except clause, which calls stop() again; raised by the
\* stop() of the except clause, it ends the thread.
CaptureJoinRaises ==
    /\ capture.at = "stop_join"
    /\ capture' = IF capture.caught
                  THEN [capture EXCEPT !.at = "finished"]
                  ELSE [capture EXCEPT !.at = "stop", !.caught = TRUE]
    /\ capture_thread' = IF capture.caught THEN "finished" ELSE capture_thread
    /\ lastop' = "join raises"
    /\ TrackerUntouched
    /\ UNCHANGED <<web, logs>>
    /\ UNCHANGED <<running, input_handler, eye_tracker, data_logger, ui, ended>>

\* stop() called from the Tk main loop finds running true
UiStopTest ==
    /\ ui = "idle"
    /\ running
    /\ ui' = "stop_set"
    /\ lastop' = "stop"
    /\ TrackerUntouched
    /\ UNCHANGED <<web, logs>>
    /\ UNCHANGED <<running, capture_thread, input_handler, eye_tracker,
                   data_logger, capture, ended>>

\* ... and sets it false
UiStopSet ==
    /\ ui = "stop_set"
    /\ running' = FALSE
    /\ ui' = "stop_join"
    /\ lastop' = "stop"
    /\ TrackerUntouched
    /\ UNCHANGED <<web, logs>>
    /\ UNCHANGED <<capture_thread, input_handler, eye_tracker, data_logger,
                   capture, ended>>

\* ... and the capture thread is not alive, or the join returns because
\* the thread ended
UiJoinReturns ==
    /\ ui = "stop_join"
    /\ capture_thread # "alive"
    /\ ui' = "cleanup"
    /\ lastop' = "join returns"
    /\ TrackerUntouched
    /\ UNCHANGED <<web, logs>>
    /\ UNCHANGED <<running, capture_thread, input_handler, eye_tracker,
                   data_logger, capture, ended>>

\* ... or the join returns after its timeout with the thread still alive
UiJoinTimesOut ==
    /\ ui = "stop_join"
    /\ capture_thread = "alive"
    /\ ui' = "cleanup"
    /\ lastop' = "join times out"
    /\ TrackerUntouched
    /\ UNCHANGED <<web, logs>>
    /\ UNCHANGED <<running, capture_thread, input_handler, eye_tracker,
                   data_logger, capture, ended>>

\* ... and the cleanup: release, release, close
UiCleanup ==
    /\ ui = "cleanup"
    /\ input_handler' = IF input_handler = None THEN None ELSE "released"
    /\ eye_tracker' = IF eye_tracker = None THEN None ELSE "released"
    /\ data_logger' = IF data_logger = NoneRecord THEN NoneRecord ELSE close(data_logger)
    /\ ui' = "idle"
    /\ lastop' = "cleanup"
    /\ TrackerUntouched
    /\ UNCHANGED <<web, logs>>
    /\ UNCHANGED <<running, capture_thread, capture, ended>>

----------------------------------------------------------------------------
(* StreamState: start and stop run in request threads of the web server,
   _run_loop in the capture thread that start created; a step of a thread
   is one action. The fields running, input_handler, eye_tracker and
   data_logger are those of the StreamState object. *)

\* the latest timestamp of a frame of the streamer's input
MaxWebTime == 1
\* the most frames with a face that one tracker of the streamer sees
MaxWebFrames == 1

\* the face in front of the streamer's camera: complete, eyes open
WebFaces == {Face(478, 8, 8, Len(pushed))}

\* the thresholds that the page's form posts to control()
WebEarThresholds == {DefaultEarThreshold}

\* a step of the streamer that does not call the tracker
WebTrackerUntouched ==
    UNCHANGED <<config, metrics, clock, args, gesture, eye_data, history, caller,
                capture_thread, ui, capture, ended, logs>>

\* threading.Thread.is_alive
IsAlive(t) == workers[t].at \notin {"unborn", "finished"}

\* the threads inside `while self.running:` (src/web_app.py:84-110)
InLoop == {t \in 1..MaxThreads : workers[t].at \in {"while", "read_frame", "process_frame"}}

\* StreamState._cleanup: release, release, close, and every component None
cleanup ==
    /\ input_handler' = None
    /\ eye_tracker' = None
    /\ data_logger' = NoneRecord

\* StreamState.start, called by control() or by _jpeg_generator when they
\* read running as false: under the lock, running becomes true and a new
\* thread object replaces the former one
WebStart ==
    \E t \in 1..MaxThreads, th \in WebEarThresholds :
        /\ ~running
        /\ workers[t].at = "unborn"
        /\ \A u \in 1..(t - 1) : workers[u].at # "unborn"
        /\ running' = TRUE
        /\ thread' = <<t>>
        /\ workers' = [workers EXCEPT ![t] = [at |-> "init", frame_idx |-> 0,
                                              ear_threshold |-> th]]
        /\ lastop' = "start"
        /\ WebTrackerUntouched
        /\ UNCHANGED <<input_handler, eye_tracker, data_logger, stopper, used_none>>

\* _run_loop, lines 70-73: the input source cannot be opened
WorkerInitFails(t) ==
    /\ workers[t].at = "init"
    /\ input_handler' = "failed"
    /\ running' = FALSE
    /\ workers' = [workers EXCEPT ![t].at = "finally"]
    /\ lastop' = "initialize failed"
    /\ WebTrackerUntouched
    /\ UNCHANGED <<eye_tracker, data_logger, thread, stopper, used_none>>

\* _run_loop, lines 70-82: the components of a capture session
WorkerInit(t) ==
    /\ workers[t].at = "init"
    /\ input_handler' = "open"
    /\ eye_tracker' = "live"
    /\ data_logger' = NewDataLogger
    /\ workers' = [workers EXCEPT ![t].at = "while"]
    /\ ear_threshold' = workers[t].ear_threshold
    /\ wink_duration' = <<DefaultWinkMin, DefaultWinkMax>>
    /\ left_eye_closed_time' = 0
    /\ right_eye_closed_time' = 0
    /\ last_blink_time' = 0
    /\ blink_count' = 0
    /\ gaze_history' = <<>>
    /\ gaze_history_max' = GazeHistoryMax
    /\ frame_width' = FrameShape.width
    /\ frame_height' = FrameShape.height
    /\ lastop' = "initialize"
    /\ args' = NoArgs
    /\ gesture' = "nocall"
    /\ eye_data' = [kind |-> "nocall"]
    /\ pushed' = <<>>
    /\ UNCHANGED <<clock, run, dbl, cleared, closed_since, caller, running,
                   capture_thread, ui, capture, ended, thread, stopper,
                   used_none, logs>>

\* `while self.running:` found true
WorkerLoopContinues(t) ==
    /\ workers[t].at = "while"
    /\ running
    /\ workers' = [workers EXCEPT ![t].at = "read_frame"]
    /\ lastop' = "while"
    /\ WebTrackerUntouched
    /\ UNCHANGED <<running, input_handler, eye_tracker, data_logger, thread,
                   stopper, used_none>>

\* `while self.running:` found false: on to the finally clause
WorkerLoopSeesStop(t) ==
    /\ workers[t].at = "while"
    /\ ~running
    /\ workers' = [workers EXCEPT ![t].at = "finally"]
    /\ lastop' = "while"
    /\ WebTrackerUntouched
    /\ UNCHANGED <<running, input_handler, eye_tracker, data_logger, thread,
                   stopper, used_none>>

\* read_frame gives a frame
WorkerReadFrame(t) ==
    /\ workers[t].at = "read_frame"
    /\ input_handler = "open"
    /\ clock < MaxWebTime
    /\ workers' = [workers EXCEPT ![t].at = "process_frame",
                                  ![t].frame_idx = workers[t].frame_idx + 1]
    /\ lastop' = "read_frame"
    /\ WebTrackerUntouched
    /\ UNCHANGED <<running, input_handler, eye_tracker, data_logger, thread,
                   stopper, used_none>>

\* read_frame fails on the handler that is there: break
WorkerReadFrameFails(t) ==
    /\ workers[t].at = "read_frame"
    /\ input_handler # None
    /\ workers' = [workers EXCEPT ![t].at = "finally"]
    /\ lastop' = "read_frame failed"
    /\ WebTrackerUntouched
    /\ UNCHANGED <<running, input_handler, eye_tracker, data_logger, thread,
                   stopper, used_none>>

\* self.input_handler is None: the call raises AttributeError
WorkerReadsNone(t) ==
    /\ workers[t].at = "read_frame"
    /\ input_handler = None
    /\ used_none' = used_none \cup {t}
    /\ workers' = [workers EXCEPT ![t].at = "finally"]
    /\ lastop' = "exception"
    /\ WebTrackerUntouched
    /\ UNCHANGED <<running, input_handler, eye_tracker, data_logger, thread, stopper>>

\* the rest of an iteration: process_frame and log_eye_data
WorkerProcessAndLog(t) ==
    /\ workers[t].at = "process_frame"
    /\ eye_tracker = "live"
    /\ data_logger # NoneRecord
    /\ ProcessedFrame(WebFaces, MaxWebFrames, {1}, MaxWebTime)
    /\ data_logger' = log_eye_data(data_logger, workers[t].frame_idx)
    /\ workers' = [workers EXCEPT ![t].at = "while"]
    /\ UNCHANGED <<running, input_handler, eye_tracker, capture_thread, ui,
                   capture, ended, thread, stopper, used_none, logs>>

\* self.eye_tracker or self.data_logger is None: AttributeError
WorkerProcessesNone(t) ==
    /\ workers[t].at = "process_frame"
    /\ eye_tracker = None \/ data_logger = NoneRecord
    /\ used_none' = used_none \cup {t}
    /\ workers' = [workers EXCEPT ![t].at = "finally"]
    /\ lastop' = "exception"
    /\ WebTrackerUntouched
    /\ UNCHANGED <<running, input_handler, eye_tracker, data_logger, thread, stopper>>

\* any other exception in the rest of an iteration
WorkerRaises(t) ==
    /\ workers[t].at = "process_frame"
    /\ eye_tracker # None
    /\ data_logger # NoneRecord
    /\ workers' = [workers EXCEPT ![t].at = "finally"]
    /\ lastop' = "exception"
    /\ WebTrackerUntouched
    /\ UNCHANGED <<running, input_handler, eye_tracker, data_logger, thread,
                   stopper, used_none>>

\* `finally: self._cleanup()`, and the thread ends
WorkerFinally(t) ==
    /\ workers[t].at = "finally"
    /\ cleanup
    /\ workers' = [workers EXCEPT ![t].at = "finished"]
    /\ lastop' = "finally"
    /\ WebTrackerUntouched
    /\ UNCHANGED <<running, thread, stopper, used_none>>

\* StreamState.stop, called by control() when it read running as true:
\* under the lock, running becomes false
WebStop ==
    /\ stopper.at = "idle"
    /\ running
    /\ running' = FALSE
    /\ stopper' = [at |-> "stop", joins |-> <<>>]
    /\ lastop' = "stop"
    /\ WebTrackerUntouched
    /\ UNCHANGED <<input_handler, eye_tracker, data_logger, thread, workers, used_none>>

\* ... then `if self.thread and self.thread.is_alive()`: the thread object
\* read here is the one that is joined
StopReadsThread ==
    /\ stopper.at = "stop"
    /\ stopper' = IF thread # <<>> /\ IsAlive(thread[1])
                  THEN [at |-> "join", joins |-> thread]
                  ELSE [at |-> "cleanup", joins |-> <<>>]
    /\ lastop' = "stop"
    /\ WebTrackerUntouched
    /\ UNCHANGED <<running, input_handler, eye_tracker, data_logger, thread,
                   workers, used_none>>

\* ... the join returns because the thread ended
StopJoinReturns ==
    /\ stopper.at = "join"
    /\ ~IsAlive(stopper.joins[1])
    /\ stopper' = [stopper EXCEPT !.at = "cleanup"]
    /\ lastop' = "join returns"
    /\ WebTrackerUntouched
    /\ UNCHANGED <<running, input_handler, eye_tracker, data_logger, thread,
                   workers, used_none>>

\* ... or after its timeout of 2 seconds, the thread still alive
StopJoinTimesOut ==
    /\ stopper.at = "join"
    /\ IsAlive(stopper.joins[1])
    /\ stopper' = [stopper EXCEPT !.at = "cleanup"]
    /\ lastop' = "join times out"
    /\ WebTrackerUntouched
    /\ UNCHANGED <<running, input_handler, eye_tracker, data_logger, thread,
                   workers, used_none>>

\* ... and _cleanup
StopCleanup ==
    /\ stopper.at = "cleanup"
    /\ cleanup
    /\ stopper' = NoStopper
    /\ lastop' = "cleanup"
    /\ WebTrackerUntouched
    /\ UNCHANGED <<running, thread, workers, used_none>>

----------------------------------------------------------------------------
(* Specifications. *)

\* the gesture state machine, following the both-eyes-closed calls
Next == DetectGestureCall(FALSE, TRUE, FALSE) \/ SetEarThreshold \/ ResetMetricsCall

Spec == Init /\ [][Next]_vars

\* the gesture state machine, following the single-eye closures
NextWink == DetectGestureCall(TRUE, FALSE, FALSE) \/ SetEarThreshold \/ ResetMetricsCall

SpecWink == Init /\ [][NextWink]_vars

\* the gesture state machine, following each eye's runs of closed calls
NextTimer ==
    DetectGestureCall(FALSE, FALSE, TRUE) \/ SetEarThreshold \/ ResetMetricsCall

SpecTimer == Init /\ [][NextTimer]_vars

\* a short session of frames of every kind
NextFrame ==
    \/ ProcessFrameCall(SessionFaces, MaxFrames, 0..MaxStep, MaxFrameTime)
    \/ SetFrameDimensions
    \/ ResetMetricsCall

SpecFrame == Init /\ [][NextFrame]_vars

\* a long session: frames arrive faster than the clock ticks
NextSweep ==
    \/ ProcessFrameCall(SweepFaces, MaxSweep, 0..1, MaxTime)
    \/ ResetMetricsCall

SpecSweep == Init /\ [][NextSweep]_vars

\* a long session whose caller reads the gaze history and changes the lists
\* it got; every frame carries process_frame's default timestamp
NextHistory ==
    \/ ProcessFrameCall(SweepFaces, MaxSweep, {0}, MaxTime)
    \/ GetGazeHistoryCall
    \/ CallerEdits
    \/ ResetMetricsCall

SpecHistory == Init /\ [][NextHistory]_vars

\* a short session of frames whose landmark lists have the boundary
\* lengths, under changing thresholds
NextMeasure ==
    \/ ProcessFrameCall(MeasureFaces, MaxMeasured, 0..1, MaxFrameTime)
    \/ SetEarThresholdTo(MeasureThresholds)
    \/ ResetMetricsCall

SpecMeasure == Init /\ [][NextMeasure]_vars

\* direct calls of the two measurements, on a tracker whose frame
\* dimensions are what an input source reported
NextCalc == CalculateEarCall \/ CalculateGazeCall \/ SetReportedDimensions

SpecCalc == Init /\ [][NextCalc]_vars

\* the desktop GUI: the Tk main loop and the capture thread
NextGui ==
    \/ StartFails \/ Start
    \/ LoopContinues \/ LoopSeesStop \/ ReadFrame \/ ReadFrameFails
    \/ ProcessAndLog \/ LoopRaises
    \/ CaptureStopReturns \/ CaptureStopTest \/ CaptureStopSet \/ CaptureJoinRaises
    \/ UiStopTest \/ UiStopSet \/ UiJoinReturns \/ UiJoinTimesOut \/ UiCleanup

SpecGui == Init /\ [][NextGui]_vars

\* the web streamer: one request thread in stop() at a time, any number
\* of start() calls, and the capture threads
NextWeb ==
    \/ WebStart \/ WebStop
    \/ StopReadsThread \/ StopJoinReturns \/ StopJoinTimesOut \/ StopCleanup
    \/ \E t \in 1..MaxThreads :
          \/ WorkerInitFails(t) \/ WorkerInit(t)
          \/ WorkerLoopContinues(t) \/ WorkerLoopSeesStop(t)
          \/ WorkerReadFrame(t) \/ WorkerReadFrameFails(t) \/ WorkerReadsNone(t)
          \/ WorkerProcessAndLog(t) \/ WorkerProcessesNone(t) \/ WorkerRaises(t)
          \/ WorkerFinally(t)

SpecWeb == Init /\ [][NextWeb]_vars

\* a DataLogger under direct calls
NextLogger == CreateDataLogger \/ LogEyeDataCall \/ LogNoFaceCall \/ CloseCall

SpecLogger == Init /\ [][NextLogger]_vars

----------------------------------------------------------------------------
(* Properties. *)

LeftClosedIn(a) == a.left_ear < a.ear_threshold
RightClosedIn(a) == a.right_ear < a.ear_threshold

\* C1 (as claimed): when one eye goes from open (0.4) to closed (0.1) alone
\* at a positive timestamp, some closed call's duration lies in
\* wink_duration, and the eye reopens 0.3 s after it closed, exactly one call
\* of the closure returned that eye's wink: the first one whose duration lay
\* in wink_duration.
C1_WinkExactlyOnce ==
    [][(/\ run.eye \in {"left", "right"}
        /\ run'.eye = "open"
        /\ run.start > 0
        /\ clock' - run.start = 3
        /\ run.inrange)
       => (run.winks = 1 /\ run.first)]_vars

\* C2 (as claimed): when one eye closes alone and reopens 0.6 s after it
\* closed, no call of the closure returned a wink.
C2_NoWinkForLongClosure ==
    [][(/\ run.eye \in {"left", "right"}
        /\ run'.eye = "open"
        /\ clock' - run.start = 6)
       => run.winks = 0]_vars

\* C3: of the both-eyes-closed calls since construction or the last reset,
\* each 0.3 s after the one before, the first returns NONE, the second
\* DOUBLE_BLINK and the third NONE.
C3_DoubleBlinkThenFreshCount ==
    /\ dbl.n >= 1 => dbl.res[1] = "none"
    /\ dbl.n >= 2 => dbl.res[2] = "double_blink"
    /\ dbl.n >= 3 => dbl.res[3] = "none"

C3_Witness == dbl.n = 3

\* C4: the gesture a detect_gesture call returns fits the eye states of that
\* call: a wink of one eye only when that eye is closed and the other open,
\* a double blink only when both are closed, NONE when neither is closed.
C4_GestureFitsEyeStates ==
    gesture # "nocall" =>
        /\ gesture = "left_wink" => LeftClosedIn(args) /\ ~RightClosedIn(args)
        /\ gesture = "right_wink" => RightClosedIn(args) /\ ~LeftClosedIn(args)
        /\ gesture = "double_blink" => LeftClosedIn(args) /\ RightClosedIn(args)
        /\ ~LeftClosedIn(args) /\ ~RightClosedIn(args) => gesture = "none"

C4_Witness ==
    /\ lastop = "detect_gesture"
    /\ gesture = "right_wink"
    /\ args.ear_threshold # DefaultEarThreshold

\* C5: after a detect_gesture call, the timer of an eye that the call found
\* open is unset (0), whatever threshold the call ran with.
C5_OpenEyeTimerUnset ==
    gesture # "nocall" =>
        /\ ~LeftClosedIn(args) => left_eye_closed_time = 0
        /\ ~RightClosedIn(args) => right_eye_closed_time = 0

\* the left eye passes for open at ratio 0.3 under the default threshold,
\* after a change of the threshold, while the right eye's timer runs
C5_Witness ==
    /\ lastop = "detect_gesture"
    /\ args.left_ear = 30
    /\ args.ear_threshold = DefaultEarThreshold
    /\ left_eye_closed_time = 0
    /\ right_eye_closed_time > 0
    /\ right_eye_closed_time < args.current_time

\* C6: the gaze history never holds more than gaze_history_max points, and
\* it holds the last min(n, 30) of the n combined-gaze points produced since
\* construction or the last reset, oldest first.
C6_GazeHistoryIsLastPoints ==
    /\ Len(gaze_history) <= gaze_history_max
    /\ Len(gaze_history) = Min(Len(pushed), 30)
    /\ gaze_history = SubSeq(pushed, Len(pushed) - Len(gaze_history) + 1, Len(pushed))

\* 35 pushes have left 30 points
C6_Witness == Len(pushed) = 35 /\ Len(gaze_history) = 30

\* C7: reset_metrics leaves the eye timers, the double-blink reference
\* timestamp and the blink counter at 0 and the gaze history empty, and does
\* not change the configuration.
C7_ResetClearsMetricsOnly ==
    [][lastop' = "reset_metrics"
       => /\ left_eye_closed_time' = 0
          /\ right_eye_closed_time' = 0
          /\ last_blink_time' = 0
          /\ blink_count' = 0
          /\ gaze_history' = <<>>
          /\ config' = config]_vars

\* a reset that found history points, a running timer and a counted blink
C7_Witness ==
    /\ lastop = "reset_metrics"
    /\ cleared.points > 0
    /\ cleared.timers
    /\ cleared.blinks
    /\ frame_width > 0

\* C8: process_frame returns None for a frame without a face, and an EyeData
\* for a frame with one, also when its landmark list is too short or its
\* eye corners coincide.
C8_NoFaceIsNone ==
    /\ lastop = "process_frame without a face" => eye_data = NoneRecord
    /\ lastop = "process_frame with a face" => eye_data.kind = "EyeData"

\* a frame without a face, after frames with one
C8_Witness ==
    /\ lastop = "process_frame without a face"
    /\ gaze_history # <<>>

\* C9: every detect_gesture call returns a member of GestureType.
C9_GestureIsOfTaxonomy == gesture # "nocall" => gesture \in GestureType

\* a both-eyes-closed call that leaves its branch without returning from it
C9_Witness ==
    /\ lastop = "detect_gesture"
    /\ LeftClosedIn(args) /\ RightClosedIn(args)
    /\ gesture = "none"

\* C10: no call returns SUSTAINED_GAZE.
C10_NeverSustainedGaze == gesture # "sustained_gaze"

\* a call that saw both eyes open, after a call that returned a gesture
C10_Witness ==
    /\ lastop = "detect_gesture"
    /\ ~LeftClosedIn(args) /\ ~RightClosedIn(args)
    /\ blink_count = 0 /\ last_blink_time > 0

\* C12: reset_metrics is idempotent: a reset_metrics call that follows
\* another one directly leaves the tracker, metrics and configuration, as
\* the first call left it.
C12_ResetIsIdempotent ==
    [][(lastop = "reset_metrics" /\ lastop' = "reset_metrics")
       => (metrics' = metrics /\ config' = config)]_vars

\* a second reset in a row, in a session that has processed a face
C12_Witness ==
    /\ lastop = "reset_metrics"
    /\ cleared.again
    /\ eye_data.kind = "EyeData"
    /\ frame_width > 0

\* C13: get_gaze_history returns the history's points, oldest first, and
\* leaves the history as it is; a change the caller makes to the returned
\* list does not change the tracker's history; and a frame or a reset, which
\* change the tracker's history, do not change a list returned earlier.
C13_HistoryIsReturnedAsCopy ==
    [][/\ lastop' = "get_gaze_history"
          => (held'.items = gaze_history /\ gaze_history' = gaze_history)
       /\ lastop' = "caller edits the list" => gaze_history' = gaze_history
       /\ (/\ lastop' \in {"process_frame with a face", "reset_metrics"}
           /\ held.kind = "list")
          => held'.items = held.items]_vars

\* the caller changed a list it got when the history held ten points; since
\* then the history has filled up and dropped its oldest points
C13_Witness ==
    /\ lastop = "process_frame with a face"
    /\ held.kind = "list"
    /\ held.edits > 0
    /\ Len(held.items) = 11
    /\ Len(pushed) = 33
    /\ Len(gaze_history) = 30

\* C15: calculate_ear returns 0.0 for a landmark list that is long enough
\* and whose first and fourth EAR points coincide, wherever the other four
\* points are.
C15_ZeroWidthEyeIsZero ==
    (/\ measure.kind = "call" /\ measure.op = "calculate_ear"
     /\ measure.landmarks.len > MaxOf(measure.eye_indices)
     /\ measure.landmarks.at[measure.eye_indices[1]]
            = measure.landmarks.at[measure.eye_indices[4]])
    => measure.value = 0

\* the corners coincide and the other four points lie apart from them and
\* from one another
C15_Witness ==
    /\ measure.kind = "call" /\ measure.op = "calculate_ear"
    /\ measure.eye_indices = RIGHT_EAR_INDICES
    /\ measure.landmarks.len = MaxOf(RIGHT_EAR_INDICES) + 1
    /\ measure.landmarks.at[362] = <<46, 40>>
    /\ measure.landmarks.at[263] = <<46, 40>>
    /\ measure.landmarks.at[385] = <<40, 32>>
    /\ measure.landmarks.at[380] = <<40, 40>>
    /\ measure.landmarks.at[387] = <<40, 40>>
    /\ measure.landmarks.at[373] = <<40, 32>>

\* C17: calculate_gaze returns (0.5, 0.5) when the tracker's frame width or
\* frame height is 0, for every landmark list.
C17_NoDimensionsIsCentre ==
    (/\ measure.kind = "call" /\ measure.op = "calculate_gaze"
     /\ (measure.width = 0 \/ measure.height = 0))
    => measure.value = <<500, 500>>

\* the width is known, the height is not, and the iris is not at the centre
C17_Witness ==
    /\ measure.kind = "call" /\ measure.op = "calculate_gaze"
    /\ measure.width > 0 /\ measure.height = 0
    /\ measure.landmarks.len = 478
    /\ measure.landmarks.at[measure.eye_indices[2]] = <<60, 40>>

\* C18 (as claimed): for a landmark list of integer pixels and positive
\* frame dimensions, both components of the gaze calculate_gaze returns lie
\* in [0, 1].
C18_GazeInUnitSquare ==
    (/\ measure.kind = "call" /\ measure.op = "calculate_gaze"
     /\ measure.width > 0 /\ measure.height > 0)
    => /\ 0 <= measure.value[1] /\ measure.value[1] <= 1000
       /\ 0 <= measure.value[2] /\ measure.value[2] <= 1000

\* the landmark list of the latest frame is too short for an index list
TooShortFor(indices) == eye_data.landmarks.len <= MaxOf(indices)

\* C14: when the landmark list of a frame does not reach the highest index
\* of an eye's EAR index list, that eye's ratio is 0.0, and under the
\* threshold in force, whichever positive one it is, the frame is
\* blinking and detect_gesture takes the eye for closed: its timer runs
\* after a call with a positive timestamp, and the call does not return the
\* other eye's wink.
C14_ShortListIsClosedEye ==
    lastop = "process_frame with a face" =>
        /\ TooShortFor(LEFT_EAR_INDICES) =>
              /\ eye_data.left_ear = 0
              /\ eye_data.is_blinking
              /\ args.current_time > 0 => left_eye_closed_time > 0
              /\ eye_data.gesture # "right_wink"
        /\ TooShortFor(RIGHT_EAR_INDICES) =>
              /\ eye_data.right_ear = 0
              /\ eye_data.is_blinking
              /\ args.current_time > 0 => right_eye_closed_time > 0
              /\ eye_data.gesture # "left_wink"

\* the list is one point short of the right eye's EAR points, the left eye
\* is open, the threshold is 0.01, and the right eye's timer runs
C14_Witness ==
    /\ lastop = "process_frame with a face"
    /\ eye_data.landmarks.len = MaxOf(RIGHT_EAR_INDICES)
    /\ args.ear_threshold = 1
    /\ eye_data.left_ear = 40
    /\ eye_data.right_ear = 0
    /\ left_eye_closed_time = 0
    /\ right_eye_closed_time > 0

\* C16 (as claimed): an eye for which the landmark list of a frame is too
\* short, for its EAR points or for its gaze points, has both the ratio 0.0
\* and the gaze (0.5, 0.5): no list length gives an eye a computed ratio
\* with a defaulted gaze.
C16_ShortListDefaultsWholeEye ==
    lastop = "process_frame with a face" =>
        /\ (TooShortFor(LEFT_EAR_INDICES) \/ TooShortFor(LEFT_EYE_INDICES))
           => (eye_data.left_ear = 0 /\ eye_data.left_gaze = <<500, 500>>)
        /\ (TooShortFor(RIGHT_EAR_INDICES) \/ TooShortFor(RIGHT_EYE_INDICES))
           => (eye_data.right_ear = 0 /\ eye_data.right_gaze = <<500, 500>>)

\* C19: is_blinking of the EyeData of a frame is true exactly when the
\* left or the right ratio of that EyeData is below the threshold the frame
\* was processed with.
C19_BlinkingIffAnEyeBelowThreshold ==
    lastop = "process_frame with a face" =>
        (eye_data.is_blinking
            <=> (\/ eye_data.left_ear < args.ear_threshold
                 \/ eye_data.right_ear < args.ear_threshold))

\* one ratio is 0.1 and the threshold was lowered to 0.01 before the frame:
\* at the default threshold the frame would be blinking
C19_Witness ==
    /\ lastop = "process_frame with a face"
    /\ eye_data.left_ear = 10
    /\ eye_data.right_ear = 40
    /\ args.ear_threshold = 1
    /\ ~eye_data.is_blinking

\* C20 (as claimed): after a detect_gesture call that found an eye closed,
\* with timestamps that do not decrease and start at any value, 0 included,
\* that eye's timer is the timestamp of the first call of the eye's current
\* uninterrupted run of closed calls; so it is not overwritten while the
\* eye stays closed.
C20_TimerIsStartOfClosure ==
    lastop = "detect_gesture" =>
        /\ closed_since.left # <<>> => left_eye_closed_time = closed_since.left[1]
        /\ closed_since.right # <<>> => right_eye_closed_time = closed_since.right[1]

\* C21 (as claimed): once an eye that closed alone has been joined by the
\* other eye before its closure lasted the wink minimum, no later call of
\* that closure returns the first eye's wink, also after the other eye has
\* reopened.  Stated for closures that began at a positive timestamp, whose
\* timers the tracker records.
C21_JoinedClosureGivesNoWink ==
    lastop = "detect_gesture" =>
        /\ (closed_since.left_mode = "joined" /\ closed_since.left[1] > 0)
           => gesture # "left_wink"
        /\ (closed_since.right_mode = "joined" /\ closed_since.right[1] > 0)
           => gesture # "right_wink"

\* C22 (as claimed): DOUBLE_BLINK needs two separate both-eyes closures: a
\* detect_gesture call that directly follows a call that found both eyes
\* closed, and so samples the same closure, does not return DOUBLE_BLINK.
C22_OneClosureIsNoDoubleBlink ==
    [][(/\ lastop = "detect_gesture"
        /\ LeftClosedIn(args) /\ RightClosedIn(args)
        /\ lastop' = "detect_gesture")
       => gesture' # "double_blink"]_vars

\* C23 (as claimed): after a detect_gesture call that found both eyes
\* closed, last_blink_time is the timestamp of that call, also when the call
\* returned DOUBLE_BLINK.
C23_EveryBlinkIsTheReference ==
    (/\ lastop = "detect_gesture"
     /\ LeftClosedIn(args) /\ RightClosedIn(args))
    => last_blink_time = args.current_time

\* C24 (as claimed): on a detect_gesture call that finds both eyes closed,
\* with gap the timestamp minus last_blink_time: a gap above 0.5 s sets the
\* counter to 1; a gap of at most 0.5 s, 0.5 s included, increments it, and a
\* counter that reaches 2 is set to 0 with DOUBLE_BLINK returned.
C24_WindowIncludesItsEnd ==
    [][(/\ lastop' = "detect_gesture"
        /\ LeftClosedIn(args') /\ RightClosedIn(args'))
       => IF args'.current_time - last_blink_time > DoubleBlinkWindow
          THEN blink_count' = 1 /\ gesture' = "none"
          ELSE IF blink_count + 1 >= 2
          THEN blink_count' = 0 /\ gesture' = "double_blink"
          ELSE blink_count' = blink_count + 1 /\ gesture' = "none"]_vars

\* C25: a detect_gesture call that finds exactly one eye closed, with that
\* eye's timer set, returns that eye's wink when the timestamp minus the
\* timer is at least wink_duration's minimum and at most its maximum, and
\* NONE otherwise.
C25_WinkIffDurationInRange ==
    lastop = "detect_gesture" =>
        /\ (LeftClosedIn(args) /\ ~RightClosedIn(args) /\ left_eye_closed_time > 0)
           => gesture = (IF /\ wink_duration[1] <= args.current_time - left_eye_closed_time
                            /\ args.current_time - left_eye_closed_time <= wink_duration[2]
                         THEN "left_wink" ELSE "none")
        /\ (RightClosedIn(args) /\ ~LeftClosedIn(args) /\ right_eye_closed_time > 0)
           => gesture = (IF /\ wink_duration[1] <= args.current_time - right_eye_closed_time
                            /\ args.current_time - right_eye_closed_time <= wink_duration[2]
                         THEN "right_wink" ELSE "none")

\* the wink of a closure that has lasted exactly the maximum, 0.5 s
C25_Witness ==
    /\ lastop = "detect_gesture"
    /\ gesture = "left_wink"
    /\ left_eye_closed_time > 0
    /\ args.current_time - left_eye_closed_time = wink_duration[2]

\* C26: a detect_gesture call that finds at most one eye closed changes
\* neither blink_count nor last_blink_time; a call that finds both eyes
\* open changes nothing of the tracker but the two eye timers, which it
\* clears.
C26_OnlyBothClosedCountsBlinks ==
    [][(lastop' = "detect_gesture" /\ ~(LeftClosedIn(args') /\ RightClosedIn(args')))
       => /\ blink_count' = blink_count
          /\ last_blink_time' = last_blink_time
          /\ (~LeftClosedIn(args') /\ ~RightClosedIn(args'))
             => /\ left_eye_closed_time' = 0
                /\ right_eye_closed_time' = 0
                /\ gaze_history' = gaze_history
                /\ config' = config]_vars

\* both eyes open between two blinks: the counted blink and its timestamp
\* are kept, a running timer is cleared
C26_Witness ==
    /\ lastop = "detect_gesture"
    /\ ~LeftClosedIn(args) /\ ~RightClosedIn(args)
    /\ blink_count = 1
    /\ last_blink_time > 0
    /\ last_blink_time < args.current_time

\* C28: between calls blink_count is 0 or 1.
C28_BlinkCountIsZeroOrOne == blink_count \in {0, 1}

\* the counter is back at 0 after the call that returned DOUBLE_BLINK
C28_Witness ==
    /\ lastop = "detect_gesture"
    /\ gesture = "double_blink"
    /\ blink_count = 0
    /\ last_blink_time > 0

\* C27: a process_frame call that detects no face leaves the two eye
\* timers, blink_count, last_blink_time and the gaze history as they were.
C27_NoFaceChangesNoMetrics ==
    [][lastop' = "process_frame without a face" => metrics' = metrics]_vars

\* a frame without a face, later than the frame that began a closure whose
\* timer still runs, with a counted blink and a history point kept
C27_Witness ==
    /\ lastop = "process_frame without a face"
    /\ left_eye_closed_time > 0
    /\ clock > args.current_time
    /\ blink_count = 1
    /\ gaze_history # <<>>

\* C29: in the EyeData of a frame, a gesture other than NONE comes with
\* is_blinking true; and a frame whose two ratios are at or above the
\* threshold has the gesture NONE and leaves both eye timers unset.
C29_GestureOnlyWhenBlinking ==
    lastop = "process_frame with a face" =>
        /\ eye_data.gesture # "none" => eye_data.is_blinking
        /\ (/\ eye_data.left_ear >= args.ear_threshold
            /\ eye_data.right_ear >= args.ear_threshold)
           => /\ eye_data.gesture = "none"
              /\ left_eye_closed_time = 0
              /\ right_eye_closed_time = 0

\* the frame of a right wink
C29_Witness ==
    /\ lastop = "process_frame with a face"
    /\ eye_data.gesture = "right_wink"
    /\ eye_data.is_blinking
    /\ eye_data.left_ear >= args.ear_threshold

\* C30: when the capture loop of the desktop GUI has ended (stop requested
\* from the UI, read_frame failed, or an exception in the loop) and no
\* stop() is in progress, the input handler and the eye tracker are
\* released, the data logger is closed with an empty buffer, and running is
\* false; also when it is the capture thread that executed stop().
C30_LoopEndReleasesEverything ==
    (ended # "none" /\ capture_thread = "finished" /\ ui = "idle") =>
        /\ input_handler = "released"
        /\ eye_tracker = "released"
        /\ data_logger.closed
        /\ data_logger.data_buffer = <<>>
        /\ ~running

\* C31: in the web streamer, once the capture thread that the streamer holds
\* has left _run_loop (stop requested, initialization failed, read_frame
\* failed, or an exception), running is false, so that a later start()
\* begins a new capture session.
C31_EndedLoopIsNotRunning ==
    (thread # <<>> /\ workers[thread[1]].at = "finished") => ~running

\* C32: in the web streamer at most one thread is inside the capture loop,
\* and no capture thread reads a component that _cleanup has set to None.
C32_OneLoopAndNoUseAfterCleanup ==
    /\ Cardinality(InLoop) <= 1
    /\ used_none = {}

\* C33: after every log call the buffer of a DataLogger holds fewer than
\* buffer_size records; after close() the buffer is empty and the file
\* holds every logged record once, in the order of the calls; a close()
\* that follows a close() writes nothing.
C33_EveryRecordIsWrittenOnce ==
    /\ logcall.op \in {"log_eye_data", "log_no_face_detected"}
       => Len(data_logger.data_buffer) < data_logger.buffer_size
    /\ logcall.op = "close"
       => /\ data_logger.data_buffer = <<>>
          /\ data_logger.log_file = logged
    /\ (logcall.op = "close" /\ logcall.again) => logcall.wrote = 0

\* a close() that writes the rest of a session whose buffer was full once,
\* a session that began without a face
C33_Witness ==
    /\ logcall.op = "close"
    /\ logcall.wrote > 0
    /\ Len(logged) > data_logger.buffer_size
    /\ ~logged[1].face

====
